---- MODULE Spec2Model ----
(***************************************************************************)
(* Model of src/three_jsProject/src/main.js: the animation loop (animate), *)
(* the scroll handler (moveCamera) and the start-up state they act on.     *)
(*                                                                         *)
(* JavaScript numbers are IEEE-754 binary64 values.  They are modelled     *)
(* exactly: a number is a record [neg, man, exp] standing for              *)
(* (-1)^neg * man * 2^exp, man an odd natural number (or zero), held as a  *)
(* little-endian sequence of base-2^15 limbs because the model checker's   *)
(* integers are 32 bits wide.  Addition and multiplication round to        *)
(* nearest, ties to even, at 53 significant bits, as the language does.    *)
(* Every magnitude the program reaches lies far inside the normal range    *)
(* of binary64, so overflow and subnormal numbers are not modelled.        *)
(***************************************************************************)
EXTENDS Integers, Sequences, FiniteSets, TLC

----
(* Natural numbers of any size: little-endian limbs, no leading zero limb.  *)
(* The arithmetic is written as functions: a function is applied to values. *)

Base == 2^15

Limbs == Seq(Nat)

Limb(a, i) == IF i <= Len(a) THEN a[i] ELSE 0

BigNorm[a \in Limbs] ==
    IF a = << >> THEN a
    ELSE IF a[Len(a)] = 0 THEN BigNorm[SubSeq(a, 1, Len(a) - 1)]
    ELSE a

BigOfNat[n \in Nat] == IF n = 0 THEN << >> ELSE <<n % Base>> \o BigOfNat[n \div Base]

AddLimbs[a \in Limbs, b \in Limbs, i \in Nat, carry \in Nat] ==
    IF i > Len(a) /\ i > Len(b)
    THEN IF carry = 0 THEN << >> ELSE <<carry>>
    ELSE <<(Limb(a, i) + Limb(b, i) + carry) % Base>>
         \o AddLimbs[a, b, i + 1, (Limb(a, i) + Limb(b, i) + carry) \div Base]

BigAdd[a \in Limbs, b \in Limbs] == AddLimbs[a, b, 1, 0]

SubLimbs[a \in Limbs, b \in Limbs, i \in Nat, borrow \in Nat] ==
    IF i > Len(a) THEN << >>
    ELSE IF Limb(a, i) - Limb(b, i) - borrow < 0
         THEN <<Limb(a, i) - Limb(b, i) - borrow + Base>> \o SubLimbs[a, b, i + 1, 1]
         ELSE <<Limb(a, i) - Limb(b, i) - borrow>> \o SubLimbs[a, b, i + 1, 0]

\* a - b, for a >= b
BigSub[a \in Limbs, b \in Limbs] == BigNorm[SubLimbs[a, b, 1, 0]]

CmpLimbs[a \in Limbs, b \in Limbs, i \in Nat] ==
    IF i = 0 THEN 0
    ELSE IF a[i] < b[i] THEN -1
    ELSE IF a[i] > b[i] THEN 1
    ELSE CmpLimbs[a, b, i - 1]

\* -1, 0 or 1 as a < b, a = b, a > b
BigCmp[a \in Limbs, b \in Limbs] ==
    IF Len(a) < Len(b) THEN -1
    ELSE IF Len(a) > Len(b) THEN 1
    ELSE CmpLimbs[a, b, Len(a)]

MulLimbs[a \in Limbs, k \in Nat, i \in Nat, carry \in Nat] ==
    IF i > Len(a)
    THEN IF carry = 0 THEN << >> ELSE <<carry>>
    ELSE <<(a[i] * k + carry) % Base>> \o MulLimbs[a, k, i + 1, (a[i] * k + carry) \div Base]

\* a * k, for 0 <= k <= Base
BigMulSmall[a \in Limbs, k \in Nat] == IF k = 0 THEN << >> ELSE MulLimbs[a, k, 1, 0]

ZeroLimbs(n) == [i \in 1..n |-> 0]

MulAcc[a \in Limbs, b \in Limbs, j \in Nat] ==
    IF j > Len(b) THEN << >>
    ELSE BigAdd[IF b[j] = 0 THEN << >> ELSE ZeroLimbs(j - 1) \o BigMulSmall[a, b[j]],
                MulAcc[a, b, j + 1]]

BigMul[a \in Limbs, b \in Limbs] ==
    IF a = << >> \/ b = << >> THEN << >> ELSE MulAcc[a, b, 1]

\* long division by d, from limb i down: the quotient's limbs and the remainder
DivLimbs[a \in Limbs, d \in Nat, i \in Nat, rem \in Nat] ==
    IF i = 0 THEN [q |-> << >>, r |-> rem]
    ELSE [q |-> DivLimbs[a, d, i - 1, (rem * Base + a[i]) % d].q
                \o <<(rem * Base + a[i]) \div d>>,
          r |-> DivLimbs[a, d, i - 1, (rem * Base + a[i]) % d].r]

\* [q, r] with a = q * d + r, for 0 < d <= Base
BigDivSmall[a \in Limbs, d \in Nat] ==
    [q |-> BigNorm[DivLimbs[a, d, Len(a), 0].q], r |-> DivLimbs[a, d, Len(a), 0].r]

SmallBitLen[n \in Nat] == IF n = 0 THEN 0 ELSE 1 + SmallBitLen[n \div 2]

BitLen[a \in Limbs] ==
    IF a = << >> THEN 0 ELSE 15 * (Len(a) - 1) + SmallBitLen[a[Len(a)]]

\* a * 2^k
BigShl[a \in Limbs, k \in Nat] ==
    IF a = << >> THEN << >>
    ELSE ZeroLimbs(k \div 15) \o BigMulSmall[a, 2^(k % 15)]

\* floor(a / 2^k)
BigShr[a \in Limbs, k \in Nat] ==
    IF k \div 15 >= Len(a) THEN << >>
    ELSE BigDivSmall[SubSeq(a, (k \div 15) + 1, Len(a)), 2^(k % 15)].q

BigIsOdd(a) == a # << >> /\ a[1] % 2 = 1

----
(* IEEE-754 binary64 numbers.                                              *)

MantissaBits == 53

\* how many of the limbs a[i], a[i+1], ... come before the first non-zero one
ZeroLimbsBelow[a \in Limbs, i \in Nat] ==
    IF i > Len(a) \/ a[i] # 0 THEN 0 ELSE 1 + ZeroLimbsBelow[a, i + 1]

\* how many times 2 divides the limb n > 0
TrailingZeroBits(n) == Cardinality({k \in 1..15 : n % (2^k) = 0})

\* man * 2^exp with man made odd
StripZeros[man \in Limbs, exp \in Int] ==
    IF man = << >> THEN [man |-> << >>, exp |-> 0]
    ELSE [man |-> BigShr[SubSeq(man, ZeroLimbsBelow[man, 1] + 1, Len(man)),
                         TrailingZeroBits(man[ZeroLimbsBelow[man, 1] + 1])],
          exp |-> exp + 15 * ZeroLimbsBelow[man, 1]
                      + TrailingZeroBits(man[ZeroLimbsBelow[man, 1] + 1])]

\* man / 2^k rounded to an integer: to nearest, ties to even; sticky says that
\* the number rounded is a little more than man
RoundedShr[man \in Limbs, k \in Nat, sticky \in BOOLEAN] ==
    LET q   == BigShr[man, k]
        cmp == BigCmp[BigSub[man, BigShl[q, k]], BigShl[<<1>>, k - 1]]
    IN  IF cmp > 0 \/ (cmp = 0 /\ (sticky \/ BigIsOdd(q))) THEN BigAdd[q, <<1>>] ELSE q

\* The binary64 number nearest to (man * 2^exp, plus a positive amount below
\* one unit of man when sticky).
RoundNearestEven[neg \in BOOLEAN, man \in Limbs, exp \in Int, sticky \in BOOLEAN] ==
    LET k == IF BitLen[man] <= MantissaBits THEN 0 ELSE BitLen[man] - MantissaBits
        c == StripZeros[IF k = 0 THEN man ELSE RoundedShr[man, k, sticky], exp + k]
    IN  [neg |-> neg, man |-> c.man, exp |-> c.exp]

\* an integer as a JavaScript number (exact below 2^53)
FromInt(n) ==
    RoundNearestEven[n < 0, BigOfNat[IF n < 0 THEN -n ELSE n], 0, FALSE]

\* a decimal literal num/den (num, den > 0, den < 2^15): the nearest binary64
DecimalLiteral(num, den) ==
    LET d == BigDivSmall[BigShl[BigOfNat[num], 75], den]
    IN  RoundNearestEven[FALSE, d.q, -75, d.r # 0]

FNeg(a) == [neg |-> ~a.neg, man |-> a.man, exp |-> a.exp]

FIsZero(a) == a.man = << >>

\* the magnitudes of a and b as multiples of 2^e, added or subtracted
AlignedSum[aneg \in BOOLEAN, ma \in Limbs, bneg \in BOOLEAN, mb \in Limbs, e \in Int] ==
    IF aneg = bneg THEN RoundNearestEven[aneg, BigAdd[ma, mb], e, FALSE]
    ELSE IF BigCmp[ma, mb] = 0 THEN [neg |-> FALSE, man |-> << >>, exp |-> 0]
    ELSE IF BigCmp[ma, mb] > 0 THEN RoundNearestEven[aneg, BigSub[ma, mb], e, FALSE]
    ELSE RoundNearestEven[bneg, BigSub[mb, ma], e, FALSE]

\* a + b
FAdd(a, b) ==
    LET e == IF FIsZero(a) THEN b.exp
             ELSE IF FIsZero(b) THEN a.exp
             ELSE IF a.exp < b.exp THEN a.exp ELSE b.exp
    IN  AlignedSum[a.neg, IF FIsZero(a) THEN << >> ELSE BigShl[a.man, a.exp - e],
                   b.neg, IF FIsZero(b) THEN << >> ELSE BigShl[b.man, b.exp - e], e]

\* a * b
FMul(a, b) ==
    RoundNearestEven[a.neg # b.neg, BigMul[a.man, b.man], a.exp + b.exp, FALSE]

\* numeric equality (===): the two zeros are equal
FEq(a, b) == (FIsZero(a) /\ FIsZero(b)) \/ a = b

----
(* The objects main.js builds before the loop starts.                      *)

Zero == FromInt(0)

\* new THREE.Vector3(): x, y, z and the setZ method every vector inherits
Vector3 == [x |-> Zero, y |-> Zero, z |-> Zero, setZ |-> [callable |-> TRUE]]

\* v.setX(n), v.setZ(n): method calls
Vector3_setX(v, n) == [v EXCEPT !.x = n]
Vector3_setZ(v, n) == [v EXCEPT !.z = n]

\* v.setZ = (n): an assignment to the property setZ of this one vector; it
\* replaces the method by a number and leaves the coordinates alone
Vector3_assign_setZ(v, n) == [v EXCEPT !.setZ = [callable |-> FALSE, value |-> n]]

\* new THREE.Euler(): the rotation of a fresh mesh
Euler == [x |-> Zero, y |-> Zero, z |-> Zero]

\* camera.position.setZ(30)
CameraStartPosition == Vector3_setZ(Vector3, FromInt(30))

\* a slip C9 has to notice: setZ called, moon.position.setZ(30), not assigned
MoonStartPosition_setZCalled == Vector3_setX(Vector3_setZ(Vector3, FromInt(30)), FromInt(2))

\* moon.position.setZ = (30); moon.position.setX(2)
MoonStartPosition == Vector3_setX(Vector3_assign_setZ(Vector3, FromInt(30)), FromInt(2))

\* torus.rotation.{x,y,z} += 0.01
TorusDelta == DecimalLiteral(1, 100)

\* moon.rotation.x += 0.05; .y += 0.075; .z += 0.05
MoonDeltaX == DecimalLiteral(5, 100)
MoonDeltaY == DecimalLiteral(75, 1000)
MoonDeltaZ == DecimalLiteral(5, 100)

\* camera.position.y = t * -0.0002
ScrollScale == FNeg(DecimalLiteral(2, 10000))

----
(* Bounds of the model.                                                    *)

\* animate invocations explored (the start-up call included)
MaxFrames == 6
\* moveCamera invocations explored
MaxScrolls == 8
\* invocations of animate in which controls.update or renderer.render raises
MaxFaults == 1

\* document.body.getBoundingClientRect().top, in whole pixels
ScrollTops == {0, -100, -250}

\* where a pointer drag may leave the camera when the controls update
OrbitTargets == {<<FromInt(30), Zero, Zero>>}

----
(* State.                                                                  *)

VARIABLES
    booted,         \* the last statement of the script, animate(), was reached
    pc,             \* 0: between callbacks; i > 0: in animate, at AnimateBody[i]
    rafPending,     \* callbacks queued by requestAnimationFrame, not yet run
    torusRot,       \* torus.rotation
    moonRot,        \* moon.rotation
    moonPos,        \* moon.position
    cameraPos,      \* camera.position
    bodyTop,        \* what document.body.getBoundingClientRect().top returns
    scrollPending,  \* a scroll event is queued for document.body.onscroll
    renderCalls,    \* calls of renderer.render made by animate
    renderRaised,   \* those of them that raised
    animateCalls,   \* invocations of animate begun
    completedCalls, \* invocations of animate that returned normally
    scrollCalls,    \* invocations of moveCamera
    steps           \* the statements the latest invocation of animate has run

vars == <<booted, pc, rafPending, torusRot, moonRot, moonPos, cameraPos, bodyTop,
          scrollPending, renderCalls, renderRaised, animateCalls, completedCalls,
          scrollCalls, steps>>

sceneVars == <<torusRot, moonRot, moonPos, cameraPos>>
hostVars == <<bodyTop, scrollPending>>

Init ==
    /\ booted = FALSE
    /\ pc = 0
    /\ rafPending = 0
    /\ torusRot = Euler
    /\ moonRot = Euler
    /\ moonPos = MoonStartPosition
    /\ cameraPos = CameraStartPosition
    /\ bodyTop = 0
    /\ scrollPending = FALSE
    /\ renderCalls = 0
    /\ renderRaised = 0
    /\ animateCalls = 0
    /\ completedCalls = 0
    /\ scrollCalls = 0
    /\ steps = << >>

----
(* What the statements of animate and moveCamera do to the objects.        *)

\* a slip C1 has to notice: the y axis assigned, torus.rotation.y = 0.01, not incremented
RotatedTorus_yAssigned(r) ==
    [x |-> FAdd(r.x, TorusDelta), y |-> TorusDelta, z |-> FAdd(r.z, TorusDelta)]

\* r.x += 0.01; r.y += 0.01; r.z += 0.01
RotatedTorus(r) ==
    [x |-> FAdd(r.x, TorusDelta), y |-> FAdd(r.y, TorusDelta), z |-> FAdd(r.z, TorusDelta)]

\* where controls.update() may put the camera: where it is, or where the
\* pointer input since the last update leads
OrbitedCamera(c) ==
    {c} \cup {[c EXCEPT !.x = t[1], !.y = t[2], !.z = t[3]] : t \in OrbitTargets}

\* moon.rotation.x += 0.05; moon.rotation.y += 0.075; moon.rotation.z += 0.05
RotatedMoon(r) ==
    [x |-> FAdd(r.x, MoonDeltaX), y |-> FAdd(r.y, MoonDeltaY), z |-> FAdd(r.z, MoonDeltaZ)]

\* a slip C2 has to notice: Y incremented, camera.position.y += t * -0.0002, not set
ScrolledCamera_accumulated(c, t) == [c EXCEPT !.y = FAdd(c.y, FMul(t, ScrollScale))]

\* a slip C7 has to notice: line 139 of main.js restored, camera.position.x = t * -0.0002
ScrolledCamera_withX(c, t) ==
    [c EXCEPT !.x = FMul(t, ScrollScale), !.y = FMul(t, ScrollScale)]

\* camera.position.y = t * -0.0002
ScrolledCamera(c, t) == [c EXCEPT !.y = FMul(t, ScrollScale)]

----
(* function animate(): its statements, in order.                           *)

\* a slip C4 has to notice: the frame requested last, after the statements that can raise
AnimateBody_requestLast ==
    <<"torus.rotation", "controls.update", "renderer.render", "requestAnimationFrame">>

\* a slip C5 has to notice: animate does not request the next frame
AnimateBody_noRequest ==
    <<"torus.rotation", "controls.update", "renderer.render">>

\* a slip C8 has to notice: the scene rendered before the torus is turned
AnimateBody_renderFirst ==
    <<"requestAnimationFrame", "renderer.render", "torus.rotation", "controls.update">>

AnimateBody ==
    <<"requestAnimationFrame", "torus.rotation", "controls.update", "renderer.render">>

At(statement) == pc \in 1..Len(AnimateBody) /\ AnimateBody[pc] = statement

\* the invocation begins: control is at the first statement
Enter ==
    /\ pc' = 1
    /\ animateCalls' = animateCalls + 1
    /\ steps' = << >>

\* the statement ran: on to the next one, or return after the last
Continue(statement) ==
    /\ steps' = Append(steps, statement)
    /\ pc' = IF pc = Len(AnimateBody) THEN 0 ELSE pc + 1
    /\ completedCalls' = IF pc = Len(AnimateBody) THEN completedCalls + 1
                         ELSE completedCalls

\* the statement raised: nothing catches it, the invocation ends there
Raise(statement) ==
    /\ steps' = Append(steps, statement \o ":throw")
    /\ pc' = 0
    /\ UNCHANGED completedCalls

\* invocations so far that ended by raising
Faulted == animateCalls - completedCalls - (IF pc = 0 THEN 0 ELSE 1)

\* animate(); the last line of the script
Start ==
    /\ ~booted
    /\ booted' = TRUE
    /\ Enter
    /\ UNCHANGED <<rafPending, sceneVars, hostVars, renderCalls, renderRaised,
                   completedCalls, scrollCalls>>

\* the host runs a queued animation-frame callback
FrameDispatch ==
    /\ booted
    /\ pc = 0
    /\ rafPending > 0
    /\ animateCalls < MaxFrames
    /\ rafPending' = rafPending - 1
    /\ Enter
    /\ UNCHANGED <<booted, sceneVars, hostVars, renderCalls, renderRaised,
                   completedCalls, scrollCalls>>

\* requestAnimationFrame(animate)
RequestAnimationFrame ==
    /\ At("requestAnimationFrame")
    /\ rafPending' = rafPending + 1
    /\ Continue("requestAnimationFrame")
    /\ UNCHANGED <<booted, sceneVars, hostVars, renderCalls, renderRaised,
                   animateCalls, scrollCalls>>

\* a slip C6 has to notice: the moon turned with the torus, every frame
RotateTorus_alsoMoon ==
    /\ At("torus.rotation")
    /\ torusRot' = RotatedTorus(torusRot)
    /\ moonRot' = RotatedMoon(moonRot)
    /\ Continue("torus.rotation")
    /\ UNCHANGED <<booted, rafPending, moonPos, cameraPos, hostVars,
                   renderCalls, renderRaised, animateCalls, scrollCalls>>

RotateTorus ==
    /\ At("torus.rotation")
    /\ torusRot' = RotatedTorus(torusRot)
    /\ Continue("torus.rotation")
    /\ UNCHANGED <<booted, rafPending, moonRot, moonPos, cameraPos, hostVars,
                   renderCalls, renderRaised, animateCalls, scrollCalls>>

\* controls.update()
ControlsUpdate ==
    /\ At("controls.update")
    /\ \/ /\ cameraPos' \in OrbitedCamera(cameraPos)
          /\ Continue("controls.update")
       \/ /\ Faulted < MaxFaults
          /\ Raise("controls.update")
          /\ UNCHANGED cameraPos
    /\ UNCHANGED <<booted, rafPending, torusRot, moonRot, moonPos, hostVars,
                   renderCalls, renderRaised, animateCalls, scrollCalls>>

\* renderer.render(scene, camera)
RendererRender ==
    /\ At("renderer.render")
    /\ renderCalls' = renderCalls + 1
    /\ \/ /\ Continue("renderer.render")
          /\ UNCHANGED renderRaised
       \/ /\ Faulted < MaxFaults
          /\ Raise("renderer.render")
          /\ renderRaised' = renderRaised + 1
    /\ UNCHANGED <<booted, rafPending, sceneVars, hostVars, animateCalls, scrollCalls>>

----
(* Scrolling.                                                              *)

\* the page is scrolled: the body's top edge moves and a scroll event is queued
HostScroll ==
    /\ booted
    /\ pc = 0
    /\ scrollCalls < MaxScrolls
    /\ \E t \in ScrollTops \ {bodyTop} : bodyTop' = t
    /\ scrollPending' = TRUE
    /\ UNCHANGED <<booted, pc, rafPending, sceneVars, renderCalls, renderRaised,
                   animateCalls, completedCalls, scrollCalls, steps>>

\* a slip C3 has to notice: the moon turned in proportion to the distance scrolled
moveCamera_moonByOffset ==
    /\ booted
    /\ pc = 0
    /\ scrollPending
    /\ scrollPending' = FALSE
    /\ LET t == FromInt(bodyTop)
       IN  /\ moonRot' = [x |-> FAdd(moonRot.x, FMul(t, ScrollScale)),
                          y |-> FAdd(moonRot.y, FMul(t, ScrollScale)),
                          z |-> FAdd(moonRot.z, FMul(t, ScrollScale))]
           /\ cameraPos' = ScrolledCamera(cameraPos, t)
    /\ scrollCalls' = scrollCalls + 1
    /\ UNCHANGED <<booted, pc, rafPending, torusRot, moonPos, bodyTop, renderCalls,
                   renderRaised, animateCalls, completedCalls, steps>>

\* a slip C10 has to notice: the scroll handler asks for a frame of its own
moveCamera_requestsFrame ==
    /\ booted
    /\ pc = 0
    /\ scrollPending
    /\ scrollPending' = FALSE
    /\ rafPending' = rafPending + 1
    /\ LET t == FromInt(bodyTop)
       IN  /\ moonRot' = RotatedMoon(moonRot)
           /\ cameraPos' = ScrolledCamera(cameraPos, t)
    /\ scrollCalls' = scrollCalls + 1
    /\ UNCHANGED <<booted, pc, torusRot, moonPos, bodyTop, renderCalls,
                   renderRaised, animateCalls, completedCalls, steps>>

\* function moveCamera(), run by the host for the queued scroll event
moveCamera ==
    /\ booted
    /\ pc = 0
    /\ scrollPending
    /\ scrollPending' = FALSE
    /\ LET t == FromInt(bodyTop)
       IN  /\ moonRot' = RotatedMoon(moonRot)
           /\ cameraPos' = ScrolledCamera(cameraPos, t)
    /\ scrollCalls' = scrollCalls + 1
    /\ UNCHANGED <<booted, pc, rafPending, torusRot, moonPos, bodyTop, renderCalls,
                   renderRaised, animateCalls, completedCalls, steps>>

----
Next ==
    \/ Start
    \/ FrameDispatch
    \/ RequestAnimationFrame
    \/ RotateTorus
    \/ ControlsUpdate
    \/ RendererRender
    \/ HostScroll
    \/ moveCamera

Spec == Init /\ [][Next]_vars

\* The host runs every queued callback, and a callback that has begun runs
\* on to its end; whether the user ever scrolls is left open.
FairSpec ==
    /\ Spec
    /\ WF_vars(Start \/ FrameDispatch \/ RequestAnimationFrame \/ RotateTorus
                  \/ ControlsUpdate \/ RendererRender)

----
(* What the claims compare the state with.                                 *)

RECURSIVE RepeatedSum(_, _)
\* 0 + d + d + ... + d, n additions, each rounded as the language rounds it
RepeatedSum(d, n) == IF n = 0 THEN Zero ELSE FAdd(RepeatedSum(d, n - 1), d)

TorusSums == [n \in 0..(MaxFrames + 1) |-> RepeatedSum(TorusDelta, n)]
MoonSumsX == [n \in 0..(MaxScrolls + 1) |-> RepeatedSum(MoonDeltaX, n)]
MoonSumsY == [n \in 0..(MaxScrolls + 1) |-> RepeatedSum(MoonDeltaY, n)]
MoonSumsZ == [n \in 0..(MaxScrolls + 1) |-> RepeatedSum(MoonDeltaZ, n)]

BigAbsDiff(a, b) == IF BigCmp[a, b] >= 0 THEN BigSub[a, b] ELSE BigSub[b, a]

\* |v - n * num / den| <= n * 2^-52 * (n * num / den): v is n times the decimal
\* num/den up to the rounding of n binary64 additions.  With v = man * 2^exp and
\* s = -exp, both sides are multiplied by den * 2^s * 2^52.
WithinRounding(v, n, num, den) ==
    LET s    == IF v.exp < 0 THEN -v.exp ELSE 0
        man  == BigShl[v.man, v.exp + s]
        diff == BigAbsDiff(BigMulSmall[man, den], BigShl[BigOfNat[n * num], s])
    IN  /\ v.neg => FIsZero(v)
        /\ BigCmp[BigShl[diff, 52], BigShl[BigOfNat[n * n * num], s]] <= 0

InSteps(statement) == \E i \in 1..Len(steps) : steps[i] = statement

\* invocations of animate whose torus increment has run
TorusIncrements ==
    animateCalls - (IF pc # 0 /\ ~InSteps("torus.rotation") THEN 1 ELSE 0)

\* this step is an invocation of moveCamera
ScrollStep == scrollCalls' = scrollCalls + 1

\* the latest invocation of animate ended by raising
LastRaised ==
    /\ pc = 0
    /\ steps # << >>
    /\ steps[Len(steps)] \in {"controls.update:throw", "renderer.render:throw"}

----
\* n * num / den as a test written in the program's language would compute it:
\* the product n * d of binary64 numbers, d the literal num/den
Product(n, num, den) == FMul(FromInt(n), DecimalLiteral(num, den))

\* n * num / den as one would write it down: the binary64 number nearest to it
Written(n, num, den) == DecimalLiteral(n * num, den)

(* C1 as written: in every reachable state the torus rotation on each axis   *)
(* equals N x 0.01, N the number of animate invocations that have run; read  *)
(* either as the product N * 0.01 or as the number written N/100.            *)
C1_TorusRotationIsExactlyFramesTimesDelta ==
    \A v \in {torusRot.x, torusRot.y, torusRot.z} :
        \/ v = Product(TorusIncrements, 1, 100)
        \/ v = Written(TorusIncrements, 1, 100)

(* C1, amended: in every reachable state the torus rotation on each axis is  *)
(* what N additions of 0.01 to 0 give, N the number of animate invocations   *)
(* whose increment has run (the start-up call included), however scroll      *)
(* events interleave; that is N x 0.01 within floating-point tolerance       *)
(* (relative error at most N x 2^-52), and the value is never normalised or  *)
(* reset.                                                                    *)
C1_TorusRotationIsFramesTimesDelta ==
    \A v \in {torusRot.x, torusRot.y, torusRot.z} :
        /\ v = TorusSums[TorusIncrements]
        /\ WithinRounding(v, TorusIncrements, 1, 100)

\* six frames have run, with scrolling in between, and the rounding shows:
\* the rotation is 0.060000000000000005, not the number written 0.06
C1_Witness ==
    /\ pc = 0
    /\ animateCalls = 6
    /\ scrollCalls >= 2
    /\ torusRot.x # DecimalLiteral(6, 100)
    /\ torusRot.x = FAdd(DecimalLiteral(5, 100), TorusDelta)

(* C2: immediately after every moveCamera invocation the camera's Y is the   *)
(* offset read in that invocation times -0.0002, whatever Y was before and   *)
(* however many events or frames came earlier; offsets 0, -100 and -250      *)
(* give 0, 0.02 and 0.05.                                                    *)
C2_CameraYIsLatestOffsetTimesScale ==
    [][ScrollStep =>
          /\ cameraPos'.y = FMul(FromInt(bodyTop), FNeg(DecimalLiteral(2, 10000)))
          /\ bodyTop = 0 => FEq(cameraPos'.y, Zero)
          /\ bodyTop = -100 => cameraPos'.y = DecimalLiteral(2, 100)
          /\ bodyTop = -250 => cameraPos'.y = DecimalLiteral(5, 100)]_vars

\* the third scroll event, at offset -250, after frames have run and after Y
\* held other values
C2_Witness ==
    /\ scrollCalls = 3
    /\ ~scrollPending
    /\ bodyTop = -250
    /\ cameraPos.y = DecimalLiteral(5, 100)
    /\ completedCalls >= 2

(* C3 as written: in every reachable state the moon rotation equals          *)
(* M x (0.05, 0.075, 0.05), M the number of scroll events handled; each axis *)
(* read either as the product M * delta or as the number written.            *)
C3_MoonRotationIsExactlyScrollsTimesDelta ==
    /\ moonRot.x \in {Product(scrollCalls, 5, 100), Written(scrollCalls, 5, 100)}
    /\ moonRot.y \in {Product(scrollCalls, 75, 1000), Written(scrollCalls, 75, 1000)}
    /\ moonRot.z \in {Product(scrollCalls, 5, 100), Written(scrollCalls, 5, 100)}

(* C3, amended: in every reachable state the moon rotation is what M         *)
(* additions of (0.05, 0.075, 0.05) to (0, 0, 0) give, M the number of       *)
(* scroll events handled: M x (0.05, 0.075, 0.05) within floating-point      *)
(* tolerance (relative error at most M x 2^-52), a function of M alone and   *)
(* not of the offsets scrolled to.                                           *)
C3_MoonRotationIsScrollsTimesDelta ==
    /\ moonRot = [x |-> MoonSumsX[scrollCalls], y |-> MoonSumsY[scrollCalls],
                  z |-> MoonSumsZ[scrollCalls]]
    /\ WithinRounding(moonRot.x, scrollCalls, 5, 100)
    /\ WithinRounding(moonRot.y, scrollCalls, 75, 1000)
    /\ WithinRounding(moonRot.z, scrollCalls, 5, 100)

\* three scroll events handled, the last at a non-zero offset, and the
\* rounding shows: x is 0.15000000000000002, not the number written 0.15
C3_Witness ==
    /\ scrollCalls = 3
    /\ ~scrollPending
    /\ bodyTop # 0
    /\ moonRot.x # DecimalLiteral(15, 100)
    /\ moonRot.y = FAdd(DecimalLiteral(15, 100), MoonDeltaY)

(* C4: requestAnimationFrame is the first statement every invocation of      *)
(* animate runs, so once an invocation is past it a frame request is         *)
(* pending, and it is still pending when a later statement of the            *)
(* invocation raised: the host can run animate again after a faulted frame.  *)
C4_RequestedBeforeAnythingCanRaise ==
    /\ steps # << >> => steps[1] = "requestAnimationFrame"
    /\ (pc # 0 /\ steps # << >>) => rafPending >= 1
    /\ LastRaised => rafPending >= 1
    /\ (LastRaised /\ animateCalls < MaxFrames) => ENABLED FrameDispatch

\* an invocation ended by raising, and a later invocation is under way
C4_Witness ==
    /\ Faulted >= 1
    /\ pc # 0
    /\ InSteps("torus.rotation")
    /\ animateCalls >= 3

(* C5: the loop has no way to end.  With the host running every queued       *)
(* callback, whenever animate is not executing a new invocation of it        *)
(* begins later (as far as the model's bound on frames lets it look), and a  *)
(* pending frame request leaves the queue only by being run: no action       *)
(* cancels one.                                                              *)
C5_LoopNeverStops ==
    /\ ((~booted \/ pc = 0) /\ animateCalls < MaxFrames) ~> (pc = 1)
    /\ [][rafPending' < rafPending =>
            /\ rafPending' = rafPending - 1
            /\ animateCalls' = animateCalls + 1
            /\ pc' = 1]_vars

\* the loop ran to the bound through a faulted frame and scroll events
C5_Witness ==
    /\ animateCalls = MaxFrames
    /\ pc = 0
    /\ rafPending = 1
    /\ Faulted >= 1
    /\ scrollCalls >= 1

(* C6 as written: every invocation of animate increases the moon's rotation, *)
(* so once an invocation has completed the rotation is no longer zero.       *)
C6_MoonRotatedByEveryFrame ==
    completedCalls >= 1 => ~FIsZero(moonRot.x) /\ ~FIsZero(moonRot.y) /\ ~FIsZero(moonRot.z)

(* C6, amended: the moon's rotation is incremented on every scroll event, by *)
(* moveCamera, by (0.05, 0.075, 0.05); no statement of animate changes it.   *)
C6_MoonRotatedByScrollOnly ==
    [][/\ ScrollStep => moonRot' = [x |-> FAdd(moonRot.x, DecimalLiteral(5, 100)),
                                    y |-> FAdd(moonRot.y, DecimalLiteral(75, 1000)),
                                    z |-> FAdd(moonRot.z, DecimalLiteral(5, 100))]
       /\ ~ScrollStep => moonRot' = moonRot]_vars

\* frames completed before and after the one scroll event that turned the moon
C6_Witness ==
    /\ scrollCalls = 1
    /\ moonRot.x = MoonDeltaX
    /\ completedCalls >= 3
    /\ pc = 0

(* C7 as written: the camera's position is written only by the Update Step   *)
(* (Y) and by the orbit controls, which the Update Step calls: every change  *)
(* of the camera's position happens inside an invocation of animate.         *)
C7_CameraMovedOnlyInsideAnimate ==
    [][cameraPos' # cameraPos => pc # 0]_vars

(* C7, amended: the camera's position is written only by the scroll handler  *)
(* moveCamera, which sets Y and nothing else, and by the orbit controls,     *)
(* which animate updates; no other statement writes a camera coordinate.     *)
C7_CameraMovedOnlyByScrollAndControls ==
    [][cameraPos' # cameraPos =>
          \/ /\ ScrollStep
             /\ cameraPos' = [cameraPos EXCEPT !.y = cameraPos'.y]
          \/ /\ pc # 0
             /\ AnimateBody[pc] = "controls.update"]_vars

\* a scroll event moved the camera's Y between frames
C7_Witness ==
    /\ scrollCalls >= 1
    /\ completedCalls >= 1
    /\ cameraPos.y = DecimalLiteral(2, 100)
    /\ cameraPos.z = FromInt(30)

(* C8 as written, the count: the render calls the loop has made are as many  *)
(* as the invocations of animate that completed.                             *)
C8_RendersEqualCompletedFrames ==
    renderCalls = completedCalls

(* C8, amended: an invocation that completes has run, in this order, the     *)
(* frame request, the torus increment, one controls update and one render;   *)
(* every render call sees the torus already incremented for its frame; and   *)
(* the render calls made are the completed invocations plus the invocations  *)
(* whose render call raised.                                                 *)
C8_OrderWithinFrame ==
    /\ [][completedCalls' # completedCalls =>
            /\ completedCalls' = completedCalls + 1
            /\ steps' = <<"requestAnimationFrame", "torus.rotation",
                          "controls.update", "renderer.render">>]_vars
    /\ [][renderCalls' # renderCalls =>
            /\ renderCalls' = renderCalls + 1
            /\ InSteps("controls.update")
            /\ torusRot.x = TorusSums[animateCalls]
            /\ torusRot' = torusRot]_vars
    /\ [](renderCalls = completedCalls + renderRaised)
    /\ [](renderCalls <= animateCalls)

\* a render call raised in one frame, and frames completed before and after
C8_Witness ==
    /\ renderRaised = 1
    /\ completedCalls >= 2
    /\ pc = 0
    /\ steps = <<"requestAnimationFrame", "torus.rotation",
                 "controls.update", "renderer.render">>

(* C9: an invocation of moveCamera changes the moon's rotation and the       *)
(* camera's Y and nothing else: not the torus rotation, the moon's position, *)
(* the camera's X or Z, the pending frame requests or the render count; and  *)
(* in every reachable state the moon's position is the start-up one, x = 2   *)
(* and z = 0, the statement moon.position.setZ = (30) having set no          *)
(* coordinate.                                                               *)
C9_ScrollTouchesOnlyMoonRotationAndCameraY ==
    /\ [][ScrollStep =>
            /\ torusRot' = torusRot
            /\ moonPos' = moonPos
            /\ cameraPos'.x = cameraPos.x
            /\ cameraPos'.z = cameraPos.z
            /\ rafPending' = rafPending
            /\ renderCalls' = renderCalls]_vars
    /\ [](/\ moonPos.x = FromInt(2)
          /\ FEq(moonPos.y, Zero)
          /\ FEq(moonPos.z, Zero))

\* scroll events and frames have run; the moon is where start-up left it
C9_Witness ==
    /\ scrollCalls >= 2
    /\ completedCalls >= 2
    /\ moonPos.x = FromInt(2)
    /\ moonPos.setZ = [callable |-> FALSE, value |-> FromInt(30)]
    /\ ~FIsZero(cameraPos.y)

(* C10: once the start-up call of animate has ended, whenever animate is not *)
(* executing exactly one frame request is pending; there is never more than  *)
(* one, and scroll events add none.                                          *)
C10_ExactlyOnePendingFrame ==
    /\ (booted /\ pc = 0) => rafPending = 1
    /\ rafPending \in {0, 1}
    /\ pc # 0 => rafPending = (IF InSteps("requestAnimationFrame") THEN 1 ELSE 0)

\* between callbacks, after several frames and scroll events
C10_Witness ==
    /\ booted
    /\ pc = 0
    /\ rafPending = 1
    /\ animateCalls >= 3
    /\ scrollCalls >= 2
====
